---- MODULE Spec2Model ----
(***************************************************************************)
(* Reference risk-settlement arithmetic of kani-solana (src/src/risk.rs)   *)
(* and the proof units that pin its numeric contracts.                     *)
(*                                                                         *)
(* The functions are pure.  One behaviour is one invocation: Init picks    *)
(* the function and its arguments, the function's action evaluates it     *)
(* and stores what it returns.  Integer widths are scaled down (u128 is    *)
(* W128 bits, i128 is W128 bits two's complement, u64 is W64 bits) so      *)
(* that saturation, checked multiplication and overflow occur at values    *)
(* TLC can enumerate.                                                      *)
(***************************************************************************)
EXTENDS Integers, Sequences, FiniteSets, TLC

VARIABLES fn, args, ret, pc

vars == <<fn, args, ret, pc>>

(***************************************************************************)
(* Widths and input sets                                                   *)
(***************************************************************************)
\* width of u128 / i128 in the model
W128 == 14
\* width of u64 / i64: half of the wide type, so u64 * u64 fits in u128
W64 == W128 \div 2
\* how many values are drawn next to each end of a type's range
Edge == 2

U128Max == 2^W128 - 1
I128Max == 2^(W128 - 1) - 1
I128Min == -(2^(W128 - 1))
U64Max == 2^W64 - 1
I64Max == 2^(W64 - 1) - 1
I64Min == -(2^(W64 - 1))

\* values in the middle of the range (those of the documented scenarios)
MidU128 == {10, 30, 50, 60, 100, 1000}
MidU64 == {25, 100}
MidI128 == {-5, 5, 1000}

U128In == (0..Edge) \cup MidU128 \cup ((I128Max - 1)..(I128Max + 1))
            \cup ((U128Max - Edge)..U128Max)
I128In == (I128Min..(I128Min + Edge)) \cup ((0 - Edge)..Edge) \cup MidI128
            \cup ((I128Max - Edge)..I128Max)
U64In == (0..Edge) \cup MidU64 \cup ((U64Max - Edge)..U64Max)
\* kani::any::<u64>() as u128, kani::any::<i64>() as i128
U64AsU128In == U64In
I64AsI128In == (I64Min..(I64Min + Edge)) \cup ((0 - Edge)..Edge)
                 \cup ((I64Max - Edge)..I64Max)

(***************************************************************************)
(* Integer primitives of the standard library, at the model's widths       *)
(***************************************************************************)
min(a, b) == IF a <= b THEN a ELSE b
max(a, b) == IF a >= b THEN a ELSE b

\* u128::saturating_add, u128::saturating_sub
saturating_add(a, b) == IF a + b > U128Max THEN U128Max ELSE a + b
saturating_sub(a, b) == IF a < b THEN 0 ELSE a - b

\* Option<u128>: None is <<>>, Some(x) is <<x>>
None == <<>>
Some(x) == <<x>>
\* u128::checked_mul
checked_mul(a, b) == IF a * b > U128Max THEN None ELSE Some(a * b)

\* the value an unchecked u128 / i128 operation leaves when it wraps
WrapU128(x) == x % (2^W128)
WrapI128(x) == ((x - I128Min) % (2^W128)) + I128Min
FitsU128(x) == x >= 0 /\ x <= U128Max
FitsI128(x) == x >= I128Min /\ x <= I128Max

\* result of evaluating a function body: the value returned when every
\* unchecked operation wraps, and whether one of them overflowed
Eval(v, o) == [val |-> v, ovf |-> o]

(***************************************************************************)
(* risk.rs                                                                 *)
(***************************************************************************)
haircut_ratio_NoZeroCase(vault, principal_total, insurance, pnl_pos_total) ==
    LET owed == saturating_add(principal_total, insurance)
        residual == saturating_sub(vault, owed)
    IN Eval(<<min(residual, pnl_pos_total), pnl_pos_total>>, FALSE)

haircut_ratio_NoMin(vault, principal_total, insurance, pnl_pos_total) ==
    LET owed == saturating_add(principal_total, insurance)
        residual == saturating_sub(vault, owed)
    IN IF pnl_pos_total = 0
       THEN Eval(<<1, 1>>, FALSE)
       ELSE Eval(<<residual, pnl_pos_total>>, FALSE)

haircut_ratio(vault, principal_total, insurance, pnl_pos_total) ==
    LET owed == saturating_add(principal_total, insurance)
        residual == saturating_sub(vault, owed)
    IN IF pnl_pos_total = 0
       THEN Eval(<<1, 1>>, FALSE)
       ELSE Eval(<<min(residual, pnl_pos_total), pnl_pos_total>>, FALSE)

effective_pnl_NoClamp(pnl_i, h_num, h_den) ==
    LET pos == max(pnl_i, 0)
    IN IF pos = 0 \/ h_den = 0
       THEN Eval(<<0>>, FALSE)
       ELSE LET prod == pos * h_num
            IN Eval(<<WrapU128(prod) \div h_den>>, ~FitsU128(prod))

effective_pnl_RoundUp(pnl_i, h_num, h_den) ==
    LET pos == max(pnl_i, 0)
    IN IF pos = 0 \/ h_den = 0
       THEN Eval(<<0>>, FALSE)
       ELSE LET hn == min(h_num, h_den)
                prod == pos * hn + (h_den - 1)
            IN IF hn = h_den
               THEN Eval(<<pos>>, FALSE)
               ELSE Eval(<<WrapU128(prod) \div h_den>>, ~FitsU128(prod))

effective_pnl(pnl_i, h_num, h_den) ==
    LET pos == max(pnl_i, 0)
    IN IF pos = 0 \/ h_den = 0
       THEN Eval(<<0>>, FALSE)
       ELSE LET hn == min(h_num, h_den)
            IN IF hn = h_den
               THEN Eval(<<pos>>, FALSE)
               ELSE LET prod == checked_mul(pos, hn)
                    IN IF prod # None
                       THEN Eval(<<prod[1] \div h_den>>, FALSE)
                       ELSE LET q == pos \div h_den
                                r == pos % h_den
                                head == q * hn
                                rprod == checked_mul(r, hn)
                                tail == IF rprod # None
                                        THEN rprod[1] \div h_den
                                        ELSE 0
                                sum == WrapU128(head) + tail
                            IN Eval(<<WrapU128(sum)>>,
                                    ~FitsU128(head) \/ ~FitsU128(sum))

warmup_slope_DirectProduct(gross_profit, elapsed, warmup_period) ==
    IF warmup_period = 0 \/ elapsed >= warmup_period
    THEN Eval(<<gross_profit>>, FALSE)
    ELSE LET prod == gross_profit * elapsed
         IN Eval(<<WrapU128(prod) \div warmup_period>>, ~FitsU128(prod))

warmup_slope_NoRemainder(gross_profit, elapsed, warmup_period) ==
    IF warmup_period = 0 \/ elapsed >= warmup_period
    THEN Eval(<<gross_profit>>, FALSE)
    ELSE LET q == gross_profit \div warmup_period
             scaled == q * elapsed
         IN Eval(<<WrapU128(scaled)>>, ~FitsU128(scaled))

warmup_slope(gross_profit, elapsed, warmup_period) ==
    IF warmup_period = 0 \/ elapsed >= warmup_period
    THEN Eval(<<gross_profit>>, FALSE)
    ELSE LET period == warmup_period
             q == gross_profit \div period
             r == gross_profit % period
             qe == q * elapsed
             re == r * elapsed
             sum == WrapU128(qe) + (WrapU128(re) \div period)
         IN Eval(<<WrapU128(sum)>>,
                 ~FitsU128(qe) \/ ~FitsU128(re) \/ ~FitsU128(sum))

fee_debt_sweep_NoMin(fee_debt, available) ==
    LET swept == available
        remaining == fee_debt - swept
    IN Eval(<<swept, WrapU128(remaining)>>, ~FitsU128(remaining))

fee_debt_sweep(fee_debt, available) ==
    LET swept == min(fee_debt, available)
        remaining == fee_debt - swept
    IN Eval(<<swept, WrapU128(remaining)>>, ~FitsU128(remaining))

\* i128::abs for a value other than i128::MIN
abs(x) == IF x < 0 THEN 0 - x ELSE x

funding_payment_SignedSaturate(position, rate_num, rate_den, is_long) ==
    IF position = 0 \/ rate_num = 0 \/ rate_den = 0
    THEN Eval(<<0>>, FALSE)
    ELSE LET quot == (position * abs(rate_num)) \div rate_den
             raw == IF rate_num < 0
                    THEN (IF quot > I128Max THEN I128Min ELSE 0 - quot)
                    ELSE (IF quot > I128Max THEN I128Max ELSE quot)
             out == IF is_long THEN raw ELSE 0 - raw
         IN Eval(<<WrapI128(out)>>, ~FitsI128(out))

funding_payment_DirectAbs(position, rate_num, rate_den, is_long) ==
    IF position = 0 \/ rate_num = 0 \/ rate_den = 0
    THEN Eval(<<0>>, FALSE)
    ELSE LET abs_num == abs(rate_num)
             prod == checked_mul(position, abs_num)
             magnitude == IF prod # None
                          THEN LET mag_u128 == prod[1] \div rate_den
                               IN IF mag_u128 > I128Max
                                  THEN I128Max
                                  ELSE mag_u128
                          ELSE I128Max
             raw == IF rate_num < 0 THEN 0 - magnitude ELSE magnitude
             out == IF is_long THEN raw ELSE 0 - raw
         IN Eval(<<out>>, ~FitsI128(abs_num))

funding_payment(position, rate_num, rate_den, is_long) ==
    IF position = 0 \/ rate_num = 0 \/ rate_den = 0
    THEN Eval(<<0>>, FALSE)
    ELSE LET abs_num == IF rate_num = I128Min
                        THEN I128Max + 1
                        ELSE abs(rate_num)
             prod == checked_mul(position, abs_num)
             magnitude == IF prod # None
                          THEN LET mag_u128 == prod[1] \div rate_den
                               IN IF mag_u128 > I128Max
                                  THEN I128Max
                                  ELSE mag_u128
                          ELSE I128Max
             negmag == 0 - magnitude
             raw == IF rate_num < 0 THEN WrapI128(negmag) ELSE magnitude
             negraw == 0 - raw
             out == IF is_long THEN raw ELSE WrapI128(negraw)
         IN Eval(<<out>>,
                 \/ ~FitsU128(abs_num)
                 \/ (rate_num < 0 /\ ~FitsI128(negmag))
                 \/ (~is_long /\ ~FitsI128(negraw)))

loss_writeoff_NoMin(negative_equity, insurance) ==
    LET writeoff == negative_equity
        new_insurance == insurance - writeoff
    IN Eval(<<writeoff, WrapU128(new_insurance)>>, ~FitsU128(new_insurance))

loss_writeoff(negative_equity, insurance) ==
    LET writeoff == min(negative_equity, insurance)
        new_insurance == insurance - writeoff
    IN Eval(<<writeoff, WrapU128(new_insurance)>>, ~FitsU128(new_insurance))

(***************************************************************************)
(* risk.rs, mod proofs: the rounding-slack proof unit                      *)
(***************************************************************************)
\* const N: usize = 4
N == 4

\* kani::assume(pnl_pos_total > 0); kani::assume(residual <= pnl_pos_total)
proof_rounding_slack_assumptions(p1, p2, p3, p4, residual) ==
    /\ p1 + p2 + p3 + p4 > 0
    /\ residual <= p1 + p2 + p3 + p4

\* returns <<sum_eff, sum_r, slack>>
proof_rounding_slack_bound_when_haircut_active(p1, p2, p3, p4, residual) ==
    LET pnl_pos_total == p1 + p2 + p3 + p4
        prod(p) == p * residual
        sum_eff == (prod(p1) \div pnl_pos_total) + (prod(p2) \div pnl_pos_total)
                     + (prod(p3) \div pnl_pos_total)
                     + (prod(p4) \div pnl_pos_total)
        sum_r == (prod(p1) % pnl_pos_total) + (prod(p2) % pnl_pos_total)
                   + (prod(p3) % pnl_pos_total) + (prod(p4) % pnl_pos_total)
        slack == residual - sum_eff
    IN Eval(<<sum_eff, sum_r, WrapU128(slack)>>,
            \/ ~FitsU128(pnl_pos_total)
            \/ \E p \in {p1, p2, p3, p4} : ~FitsU128(prod(p))
            \/ ~FitsU128(sum_eff)
            \/ ~FitsU128(sum_r)
            \/ ~FitsU128(slack))

(***************************************************************************)
(* token.rs and tests/self_verify.rs: value-conserving splits              *)
(***************************************************************************)
\* Amounts are u64 and their sums u128.  Basis points reach 10_000, which
\* must fit the narrow type, so in this part u64 is W128 bits wide and u128
\* twice that: a u64 times a rate, or two u64 added, still fit the wide type.
TokenU64Max == 2^W128 - 1
TokenU128Max == 2^(2 * W128) - 1
WrapTokenU64(x) == x % (2^W128)
FitsTokenU64(x) == x >= 0 /\ x <= TokenU64Max
FitsTokenU128(x) == x >= 0 /\ x <= TokenU128Max

\* kani::assume(rate_bps <= 10_000)
MaxRateBps == 10000
\* the divisor of the floor basis-points split
BpsDenominator == 10000

MidTokenU64 == {25, 100, 9999, 10000, 10001}
TokenU64In == (0..Edge) \cup MidTokenU64
                \cup ((TokenU64Max - Edge)..TokenU64Max)

\* |total| (0, total)
identity_split(total) == Eval(<<0, total>>, FALSE)

floor_bps_split_PercentDenominator(total, rate) ==
    LET wide == total * rate
        burn == WrapTokenU64(wide \div 100)
        remainder == total - burn
    IN Eval(<<burn, WrapTokenU64(remainder)>>,
            ~FitsTokenU128(wide) \/ ~FitsTokenU64(remainder))

\* |total, rate| { burn = (total as u128 * rate as u128 / 10_000) as u64;
\*                 remainder = total - burn; (burn, remainder) }
floor_bps_split(total, rate) ==
    LET wide == total * rate
        burn == WrapTokenU64(wide \div BpsDenominator)
        remainder == total - burn
    IN Eval(<<burn, WrapTokenU64(remainder)>>,
            ~FitsTokenU128(wide) \/ ~FitsTokenU64(remainder))

\* the assertions shared by the two-way checks, on the parts (a, b):
\* returns <<a, b, sum>>, whether the split overflowed, and whether the
\* three assertions pass
split_conserves(r, total) ==
    LET a == r.val[1]
        b == r.val[2]
        sum == a + b
    IN [val |-> <<a, b, sum>>,
        ovf |-> r.ovf \/ ~FitsTokenU128(sum),
        pass |-> a <= total /\ b <= total /\ sum = total]

\* split is the evaluation of split_fn(total)
assert_two_way_split_conserves(split, total) ==
    split_conserves(split, total)

\* split is the evaluation of split_fn(total, rate_bps)
assert_bps_split_conserves(split, total, rate_bps) ==
    split_conserves(split, total)

(***************************************************************************)
(* math.rs: capped ceiling weighted average                                *)
(***************************************************************************)
\* scores and the cap are u8, weights are u16, at their real widths; the
\* u128 accumulators hold at most len * 255 * 65535, which no slice overflows
U8Max == 255
U16Max == 65535
\* longest slice of (score, weight) pairs drawn
MaxPairs == 2

\* bounds of generators::any_score and generators::any_weight
MaxScore == 100
MinWeight == 1
MaxWeight == 10000

ScoreIn == (0..Edge) \cup {50, MaxScore} \cup ((U8Max - Edge)..U8Max)
WeightIn == (0..Edge) \cup {MaxWeight} \cup ((U16Max - Edge)..U16Max)
CapIn == {0, MaxScore, U8Max}
PairsIn == UNION {[1..n -> ScoreIn \X WeightIn] : n \in 0..MaxPairs}

\* the while loop: returns <<weighted_sum, total_weight>>
RECURSIVE ceiling_weighted_average_loop(_, _, _, _)
ceiling_weighted_average_loop(pairs, i, weighted_sum, total_weight) ==
    IF i < Len(pairs)
    THEN LET score == pairs[i + 1][1]
             weight == pairs[i + 1][2]
         IN ceiling_weighted_average_loop(pairs, i + 1,
                                          weighted_sum + score * weight,
                                          total_weight + weight)
    ELSE <<weighted_sum, total_weight>>

ceiling_weighted_average_Floor(pairs, cap) ==
    LET acc == ceiling_weighted_average_loop(pairs, 0, 0, 0)
        weighted_sum == acc[1]
        total_weight == acc[2]
    IN IF total_weight = 0
       THEN Eval(<<0>>, FALSE)
       ELSE LET consensus == weighted_sum \div total_weight
            IN Eval(<<min(consensus, cap) % (U8Max + 1)>>, FALSE)

ceiling_weighted_average(pairs, cap) ==
    LET acc == ceiling_weighted_average_loop(pairs, 0, 0, 0)
        weighted_sum == acc[1]
        total_weight == acc[2]
    IN IF total_weight = 0
       THEN Eval(<<0>>, FALSE)
       ELSE LET consensus == (weighted_sum + total_weight - 1)
                               \div total_weight
            IN Eval(<<min(consensus, cap) % (U8Max + 1)>>, FALSE)

(***************************************************************************)
(* State machine: one invocation                                           *)
(***************************************************************************)
Fns == {"haircut_ratio", "effective_pnl", "warmup_slope", "fee_debt_sweep",
        "funding_payment", "loss_writeoff",
        "proof_rounding_slack_bound_when_haircut_active",
        "identity_split_conserves", "floor_bps_split_conserves",
        "ceiling_weighted_average"}

Inputs(f) ==
    CASE f = "haircut_ratio" -> U128In \X U128In \X U128In \X U128In
      [] f = "effective_pnl" -> I128In \X U128In \X U128In
      [] f = "warmup_slope" -> U128In \X U64In \X U64In
      [] f = "fee_debt_sweep" -> U128In \X U128In
      [] f = "funding_payment" -> U128In \X I128In \X U128In \X BOOLEAN
      [] f = "loss_writeoff" -> U128In \X U128In
      [] f = "proof_rounding_slack_bound_when_haircut_active" ->
             U64AsU128In \X U64AsU128In \X U64AsU128In \X U64AsU128In
               \X U64AsU128In
      [] f = "identity_split_conserves" -> {<<total>> : total \in TokenU64In}
      [] f = "ceiling_weighted_average" -> PairsIn \X CapIn
      [] f = "floor_bps_split_conserves" -> TokenU64In \X TokenU64In

\* an overflowing unchecked operation panics (overflow checks on) or
\* wraps (overflow checks off)
Outcomes(r) ==
    IF r.ovf
    THEN {[pc |-> "panic", ret |-> <<>>], [pc |-> "ret", ret |-> r.val]}
    ELSE {[pc |-> "ret", ret |-> r.val]}

Finish(r) ==
    \E o \in Outcomes(r) :
        /\ pc' = o.pc
        /\ ret' = o.ret
        /\ UNCHANGED <<fn, args>>

Init ==
    /\ pc = "call"
    /\ ret = <<>>
    /\ fn \in Fns
    /\ args \in Inputs(fn)

Call_haircut_ratio ==
    /\ pc = "call"
    /\ fn = "haircut_ratio"
    /\ Finish(haircut_ratio(args[1], args[2], args[3], args[4]))

Call_effective_pnl ==
    /\ pc = "call"
    /\ fn = "effective_pnl"
    /\ Finish(effective_pnl(args[1], args[2], args[3]))

Call_warmup_slope ==
    /\ pc = "call"
    /\ fn = "warmup_slope"
    /\ Finish(warmup_slope(args[1], args[2], args[3]))

Call_fee_debt_sweep ==
    /\ pc = "call"
    /\ fn = "fee_debt_sweep"
    /\ Finish(fee_debt_sweep(args[1], args[2]))

Call_funding_payment ==
    /\ pc = "call"
    /\ fn = "funding_payment"
    /\ Finish(funding_payment(args[1], args[2], args[3], args[4]))

Call_loss_writeoff ==
    /\ pc = "call"
    /\ fn = "loss_writeoff"
    /\ Finish(loss_writeoff(args[1], args[2]))

Run_proof_rounding_slack ==
    /\ pc = "call"
    /\ fn = "proof_rounding_slack_bound_when_haircut_active"
    /\ proof_rounding_slack_assumptions(args[1], args[2], args[3], args[4],
                                        args[5])
    /\ Finish(proof_rounding_slack_bound_when_haircut_active(
                  args[1], args[2], args[3], args[4], args[5]))

\* a proof unit returns when its assertions pass and panics when one fails
FinishProof(r) ==
    \E o \in Outcomes(r) :
        /\ pc' = IF r.pass THEN o.pc ELSE "panic"
        /\ ret' = IF r.pass THEN o.ret ELSE <<>>
        /\ UNCHANGED <<fn, args>>

Run_identity_split_conserves ==
    /\ pc = "call"
    /\ fn = "identity_split_conserves"
    /\ FinishProof(assert_two_way_split_conserves(identity_split(args[1]),
                                                  args[1]))

Run_floor_bps_split_conserves ==
    /\ pc = "call"
    /\ fn = "floor_bps_split_conserves"
    /\ args[2] <= MaxRateBps
    /\ FinishProof(assert_bps_split_conserves(
                       floor_bps_split(args[1], args[2]), args[1], args[2]))

Call_ceiling_weighted_average ==
    /\ pc = "call"
    /\ fn = "ceiling_weighted_average"
    /\ Finish(ceiling_weighted_average(args[1], args[2]))

Next ==
    \/ Call_haircut_ratio
    \/ Call_effective_pnl
    \/ Call_warmup_slope
    \/ Call_fee_debt_sweep
    \/ Call_funding_payment
    \/ Call_loss_writeoff
    \/ Run_proof_rounding_slack
    \/ Run_identity_split_conserves
    \/ Run_floor_bps_split_conserves
    \/ Call_ceiling_weighted_average

Spec == Init /\ [][Next]_vars

Returned(f) == pc = "ret" /\ fn = f

(***************************************************************************)
(* Properties                                                              *)
(***************************************************************************)
\* mathematical reference values, in unbounded integers
FloorDiv(a, b) == a \div b
Residual(vault, principal_total, insurance) ==
    max(0, vault - (principal_total + insurance))
ResidualSaturating(vault, principal_total, insurance) ==
    max(0, vault - min(principal_total + insurance, U128Max))

\* C1: for pos >= 0, hDen > 0 and hNum <= hDen over the full input width,
\* effective_pnl returns floor(pos * hNum / hDen), on the direct path and on
\* the quotient/remainder path taken when pos * hNum overflows.
C1_EffectivePnlIsExactFloor ==
    (fn = "effective_pnl" /\ pc # "call"
       /\ args[1] >= 0 /\ args[3] > 0 /\ args[2] <= args[3])
    => (pc = "ret" /\ ret[1] = FloorDiv(args[1] * args[2], args[3]))

\* C2: haircut_ratio returns (num, den) with den # 0 and num <= den; when
\* pnlPosTotal > 0 also den = pnlPosTotal and num <= residual, where
\* residual = max(0, vault - (principalTotal + insurance)).
C2_HaircutRatioWellFormed ==
    Returned("haircut_ratio")
    => /\ ret[2] # 0
       /\ ret[1] <= ret[2]
       /\ args[4] > 0
          => /\ ret[2] = args[4]
             /\ ret[1] <= Residual(args[1], args[2], args[3])

\* C2 witness: a positive pnlPosTotal with principalTotal + insurance
\* saturating has been answered.
C2_Witness ==
    /\ Returned("haircut_ratio")
    /\ args[4] > 0
    /\ args[2] + args[3] > U128Max

\* C3: haircut_ratio returns (1,1) when pnlPosTotal = 0 and otherwise
\* (min(residual, pnlPosTotal), pnlPosTotal) with residual =
\* max(0, vault - saturating(principalTotal + insurance)); so num = den when
\* residual >= pnlPosTotal, and haircut_ratio(100, 60, 10, 50) = (30, 50).
C3_HaircutRatioValue ==
    Returned("haircut_ratio")
    => LET residual == ResidualSaturating(args[1], args[2], args[3])
       IN /\ args[4] = 0 => ret = <<1, 1>>
          /\ args[4] # 0 => ret = <<min(residual, args[4]), args[4]>>
          /\ residual >= args[4] => ret[1] = ret[2]
          /\ args = <<100, 60, 10, 50>> => ret = <<30, 50>>

\* C3 witness: the documented scenario has returned (30, 50).
C3_Witness ==
    /\ Returned("haircut_ratio")
    /\ args = <<100, 60, 10, 50>>
    /\ ret = <<30, 50>>

\* C4: for all pnl, hNum, hDen (malformed ratios included) effective_pnl
\* is at most max(pnl, 0); it is 0 when pnl <= 0 or hDen = 0 and it is the
\* positive pnl unchanged when hNum >= hDen > 0.
C4_EffectivePnlBounded ==
    Returned("effective_pnl")
    => /\ ret[1] <= max(args[1], 0)
       /\ (args[1] <= 0 \/ args[3] = 0) => ret[1] = 0
       /\ (args[1] > 0 /\ args[3] > 0 /\ args[2] >= args[3])
          => ret[1] = args[1]

\* C4 witness: a positive pnl under a malformed ratio hNum > hDen > 0 has
\* been returned unchanged.
C4_Witness ==
    /\ Returned("effective_pnl")
    /\ args[1] > 0
    /\ args[3] > 0
    /\ args[2] > args[3]
    /\ ret[1] = args[1]

\* sum of effective_pnl over the four accounts under the ratio
\* haircut_ratio(residual, 0, 0, pnl_pos_total)
SumEffective(p1, p2, p3, p4, residual) ==
    LET h == haircut_ratio(residual, 0, 0, p1 + p2 + p3 + p4).val
        eff(p) == effective_pnl(p, h[1], h[2]).val[1]
    IN eff(p1) + eff(p2) + eff(p3) + eff(p4)

\* C5: with the haircut active (the four positive PnLs sum to
\* pnlPosTotal > 0 and residual <= pnlPosTotal) the floored payouts sum to
\* at most residual and leave at most N - 1 unpaid.
C5_RoundingSlackBound ==
    Returned("proof_rounding_slack_bound_when_haircut_active")
    => LET paid == SumEffective(args[1], args[2], args[3], args[4], args[5])
       IN /\ ret[1] <= args[5]
          /\ args[5] - ret[1] <= N - 1
          /\ ret[3] = args[5] - ret[1]
          /\ paid = ret[1]

\* C5 witness: a run in which rounding leaves exactly N - 1 unpaid.
C5_Witness ==
    /\ Returned("proof_rounding_slack_bound_when_haircut_active")
    /\ args[5] < args[1] + args[2] + args[3] + args[4]
    /\ ret[3] = N - 1

\* C6: warmup_slope is monotonic non-decreasing in the elapsed time, for
\* every profit and period (0 included), also across elapsed < period <= t2.
C6_WarmupMonotonic ==
    Returned("warmup_slope")
    => \A t2 \in U64In :
          args[2] <= t2
          => ret[1] <= warmup_slope(args[1], t2, args[3]).val[1]

\* C6 witness: a partly warmed profit (elapsed < period) has been returned,
\* and a later time at or past the period exists.
C6_Witness ==
    /\ Returned("warmup_slope")
    /\ args[2] < args[3]
    /\ ret[1] > 0
    /\ ret[1] < args[1]
    /\ \E t2 \in U64In : t2 >= args[3]

\* C7: warmup_slope is at most profit, is profit when elapsed >= period,
\* and is floor(profit * elapsed / period) when elapsed < period;
\* warmup_slope(1000, 25, 100) = 250.
C7_WarmupBoundedAndExact ==
    Returned("warmup_slope")
    => /\ ret[1] <= args[1]
       /\ args[2] >= args[3] => ret[1] = args[1]
       /\ args[2] < args[3] => ret[1] = FloorDiv(args[1] * args[2], args[3])
       /\ args = <<1000, 25, 100>> => ret[1] = 250

\* C7 witness: the documented scenario has returned 250.
C7_Witness ==
    /\ Returned("warmup_slope")
    /\ args = <<1000, 25, 100>>
    /\ ret = <<250>>

\* C8: the long payment is the negation of the short payment for the same
\* position and rate, the negation never overflows, and the payment is 0
\* when position, rateNum or rateDen is 0.
C8_FundingSymmetry ==
    (fn = "funding_payment" /\ pc # "call")
    => /\ pc = "ret"
       /\ LET other == funding_payment(args[1], args[2], args[3], ~args[4])
              long == IF args[4] THEN ret[1] ELSE other.val[1]
              short == IF args[4] THEN other.val[1] ELSE ret[1]
          IN /\ ~other.ovf
             /\ FitsI128(0 - short)
             /\ long = 0 - short
       /\ (args[1] = 0 \/ args[2] = 0 \/ args[3] = 0) => ret[1] = 0

\* C8 witness: the short side of the minimum signed rate has received the
\* saturated payment.
C8_Witness ==
    /\ Returned("funding_payment")
    /\ args[2] = I128Min
    /\ ~args[4]
    /\ ret[1] = I128Max

\* C9: for nonzero position, rateNum and rateDen the payment's magnitude is
\* min(floor(position * |rateNum| / rateDen), signed maximum) and its sign
\* is rateNum's sign for a long and the opposite for a short.
C9_FundingMagnitude ==
    (Returned("funding_payment")
       /\ args[1] # 0 /\ args[2] # 0 /\ args[3] # 0)
    => LET magnitude == min(FloorDiv(args[1] * abs(args[2]), args[3]),
                            I128Max)
       IN ret[1] = IF (args[2] > 0) = args[4]
                   THEN magnitude
                   ELSE 0 - magnitude

\* C10: fee_debt_sweep returns swept = min(feeDebt, available) with
\* swept + remaining = feeDebt, swept <= available, swept <= feeDebt; when
\* available >= feeDebt, swept = feeDebt and remaining = 0.
C10_FeeSweepConservation ==
    (fn = "fee_debt_sweep" /\ pc # "call")
    => /\ pc = "ret"
       /\ ret[1] = min(args[1], args[2])
       /\ ret[1] + ret[2] = args[1]
       /\ ret[1] <= args[2]
       /\ ret[1] <= args[1]
       /\ args[2] >= args[1] => (ret[1] = args[1] /\ ret[2] = 0)

\* C10 witness: a partial sweep, leaving debt.
C10_Witness ==
    /\ Returned("fee_debt_sweep")
    /\ args[2] > 0
    /\ args[2] < args[1]
    /\ ret[2] > 0

\* C11: loss_writeoff returns (writeoff, newInsurance) with
\* writeoff + newInsurance = insurance, writeoff <= negativeEquity and
\* writeoff <= insurance; for a fixed insurance the remaining insurance does
\* not increase when the negative equity grows.
C11_WriteoffConservation ==
    (fn = "loss_writeoff" /\ pc # "call")
    => /\ pc = "ret"
       /\ ret[1] + ret[2] = args[2]
       /\ ret[1] <= args[1]
       /\ ret[1] <= args[2]
       /\ \A neg2 \in U128In :
             args[1] <= neg2
             => ret[2] >= loss_writeoff(neg2, args[2]).val[2]

\* C11 witness: a loss smaller than the insurance has been written off,
\* leaving insurance that a larger loss would reduce further.
C11_Witness ==
    /\ Returned("loss_writeoff")
    /\ args[1] > 0
    /\ args[1] < args[2]
    /\ ret[2] > 0
    /\ \E neg2 \in U128In :
          /\ args[1] < neg2
          /\ ret[2] > loss_writeoff(neg2, args[2]).val[2]

\* the six reference functions of risk.rs
RiskFns == {"haircut_ratio", "effective_pnl", "warmup_slope",
            "fee_debt_sweep", "funding_payment", "loss_writeoff"}

\* C12: the six reference functions are total over the full width of their
\* parameters: no intermediate addition, subtraction, multiplication or
\* negation overflows or underflows (no invocation panics), and every value
\* returned lies in its type's range.  Every division and remainder the
\* functions evaluate has a nonzero divisor.
C12_RiskFunctionsTotal ==
    fn \in RiskFns
    => /\ pc # "panic"
       /\ pc = "ret"
          => \A i \in 1..Len(ret) :
                IF fn = "funding_payment"
                THEN FitsI128(ret[i])
                ELSE FitsU128(ret[i])
       /\ (pc = "call" /\ fn = "effective_pnl")
          => ~effective_pnl(args[1], args[2], args[3]).ovf
       /\ (pc = "call" /\ fn = "warmup_slope")
          => ~warmup_slope(args[1], args[2], args[3]).ovf
       /\ (pc = "call" /\ fn = "funding_payment")
          => ~funding_payment(args[1], args[2], args[3], args[4]).ovf

\* C12 witness: effective_pnl has returned from its quotient/remainder path
\* with both q * h_num and the tail nonzero.
C12_Witness ==
    /\ Returned("effective_pnl")
    /\ args[1] > 0
    /\ args[3] > 0
    /\ args[2] < args[3]
    /\ args[1] * args[2] > U128Max
    /\ (args[1] \div args[3]) * args[2] > 0
    /\ ((args[1] % args[3]) * args[2]) \div args[3] > 0
    /\ ret[1] = FloorDiv(args[1] * args[2], args[3])

\* C13: the split-conservation check (each part <= total, wide sum of the
\* parts = total) passes for every total for the split (0, total), and for
\* every total and every rate <= 10_000 for the floor basis-points split
\* (burn = floor(total * rate / 10_000), remainder = total - burn), with no
\* overflow or underflow inside the split.
C13_SplitsConserve ==
    /\ (fn = "identity_split_conserves" /\ pc # "call")
       => /\ pc = "ret"
          /\ ret = <<0, args[1], args[1]>>
    /\ (fn = "floor_bps_split_conserves" /\ pc # "call")
       => /\ pc = "ret"
          /\ ret[1] = FloorDiv(args[1] * args[2], 10000)
          /\ ret[2] = args[1] - ret[1]
          /\ ret[1] <= args[1]
          /\ ret[2] <= args[1]
          /\ ret[3] = args[1]
    /\ (fn = "floor_bps_split_conserves" /\ pc = "call"
          /\ args[2] <= 10000)
       => ~floor_bps_split(args[1], args[2]).ovf

\* C13 witness: the largest total has been split at a rate that rounds,
\* with both parts nonzero.
C13_Witness ==
    /\ Returned("floor_bps_split_conserves")
    /\ args[1] = TokenU64Max
    /\ (args[1] * args[2]) % 10000 # 0
    /\ ret[1] > 0
    /\ ret[2] > 0

\* mathematical reference values for the weighted average
RECURSIVE SumWeights(_)
SumWeights(pairs) ==
    IF pairs = <<>> THEN 0 ELSE Head(pairs)[2] + SumWeights(Tail(pairs))
RECURSIVE SumScoreTimesWeight(_)
SumScoreTimesWeight(pairs) ==
    IF pairs = <<>>
    THEN 0
    ELSE Head(pairs)[1] * Head(pairs)[2] + SumScoreTimesWeight(Tail(pairs))
CeilDiv(a, b) == IF a % b = 0 THEN a \div b ELSE (a \div b) + 1
FromGenerators(pairs) ==
    \A i \in 1..Len(pairs) :
        /\ pairs[i][1] <= MaxScore
        /\ pairs[i][2] >= MinWeight
        /\ pairs[i][2] <= MaxWeight

\* C14: ceiling_weighted_average(pairs, cap) is
\* min(ceil(sum(score * weight) / sum(weight)), cap), and 0 when the total
\* weight is 0 (the empty list included); so for scores in [0,100], weights
\* in [1,10_000] and cap 100, one pair returns its score and two pairs
\* return at most 100.
C14_CeilingWeightedAverage ==
    Returned("ceiling_weighted_average")
    => LET pairs == args[1]
           cap == args[2]
           total == SumWeights(pairs)
       IN /\ total = 0 => ret[1] = 0
          /\ pairs = <<>> => ret[1] = 0
          /\ total > 0
             => ret[1] = min(CeilDiv(SumScoreTimesWeight(pairs), total), cap)
          /\ (cap = 100 /\ FromGenerators(pairs) /\ Len(pairs) = 1)
             => ret[1] = pairs[1][1]
          /\ (cap = 100 /\ FromGenerators(pairs) /\ Len(pairs) = 2)
             => ret[1] <= 100

\* C14 witness: two pairs whose average is not whole have been averaged,
\* rounded up and returned below the cap.
C14_Witness ==
    /\ Returned("ceiling_weighted_average")
    /\ Len(args[1]) = 2
    /\ FromGenerators(args[1])
    /\ args[2] = 100
    /\ SumScoreTimesWeight(args[1]) % SumWeights(args[1]) # 0
    /\ ret[1] = (SumScoreTimesWeight(args[1]) \div SumWeights(args[1])) + 1
    /\ ret[1] < 100

====
